---- MODULE Spec2Model ----
(***************************************************************************)
(* A model of mamecheck.py: the datfile's rom map (an insertion-ordered    *)
(* dict of romsets), create_romfile_checklist and its two in-place         *)
(* reconcilers, and check_roms with the statistics it builds.              *)
(*                                                                         *)
(* A Python dict is modelled as a sequence of entries in insertion order   *)
(* with unique keys: rom_digests is a sequence of <<rom name, sha1>>       *)
(* pairs, the rom map a sequence of romset records.  An exception that     *)
(* leaves a function is modelled by the flag raised.                       *)
(***************************************************************************)
EXTENDS Integers, Sequences, FiniteSets, TLC

\* ------------------------------------------------------------ universe

\* Names of the games of the datfile, in the order the datfile lists them.
GameNames == <<"g", "p", "c">>
\* A romof value that names no game of the datfile.
Dangling == "zz"
\* The value of an attribute the game element does not carry.
NoAttr == "-"
\* Rom names and sha1 values a datfile may give.
RomNames == <<"a", "b">>
Sha1s == {"d1", "d2"}
\* How many times a caller runs create_romfile_checklist on the same map.
MaxCalls == 2
\* The sha1 values as a datfile may spell them: hashlib's hexdigest is lower
\* case, a datfile may give the same digest in upper case.
DatSha1s == Sha1s \cup {"D1"}
\* The games of the datfile whose zip files check_roms is followed on, and the
\* member names a zip file may hold ("x" is listed by no game).
CheckedGames == <<"g", "p">>
ZipMemberNames == <<"a", "b", "x">>

Range(s) == { s[i] : i \in DOMAIN s }

\* ------------------------------------------------------------ dicts

DictKeys(d) == { d[i][1] : i \in DOMAIN d }
DictHas(d, k) == \E i \in DOMAIN d : d[i][1] = k
DictGet(d, k) == d[CHOOSE i \in DOMAIN d : d[i][1] = k][2]
DictDel(d, k) == SelectSeq(d, LAMBDA e : e[1] # k)

\* The rom map is keyed by romset name.
MapHas(m, n) == \E i \in DOMAIN m : m[i].name = n
MapIdx(m, n) == CHOOSE i \in DOMAIN m : m[i].name = n
MapGet(m, n) == m[MapIdx(m, n)]
MapNames(m) == { m[i].name : i \in DOMAIN m }

\* ------------------------------------------------------------ merged

RECURSIVE MergeRomsCloneWins(_, _, _)
\* MergeRoms with the clone's digest written over the parent's.
MergeRomsCloneWins(cur, par, i) ==
    IF i > Len(cur) THEN par
    ELSE MergeRomsCloneWins(cur,
            IF ~DictHas(par, cur[i][1]) THEN Append(par, cur[i])
            ELSE [j \in DOMAIN par |-> IF par[j][1] = cur[i][1] THEN cur[i]
                                                                ELSE par[j]],
            i + 1)

RECURSIVE MergeRoms(_, _, _)
\* The inner loop of create_merged_checklist: every rom of the clone that
\* the parent does not list is added to the parent; a rom the parent lists
\* keeps the parent's digest (an incoherency is only printed).
MergeRoms(cur, par, i) ==
    IF i > Len(cur) THEN par
    ELSE MergeRoms(cur,
                   IF ~DictHas(par, cur[i][1]) THEN Append(par, cur[i]) ELSE par,
                   i + 1)

\* SkipsMerge with the isbios test left out.
SkipsMergeNever(parent_romset) == FALSE

\* Whether the romset carries the attribute that stops clones merging into it.
SkipsMerge(parent_romset) == parent_romset.isbios

RECURSIVE MergedLoop(_, _, _)
\* The outer loop of create_merged_checklist over rom_map.items().
MergedLoop(m, k, delete_list) ==
    IF k > Len(m) THEN [map |-> m, delete_list |-> delete_list]
    ELSE LET cur == m[k] IN
         IF cur.romof = NoAttr THEN MergedLoop(m, k + 1, delete_list)
         ELSE IF MapHas(m, cur.romof)
              THEN LET pi == MapIdx(m, cur.romof) IN
                   IF SkipsMerge(m[pi]) THEN MergedLoop(m, k + 1, delete_list)
                   ELSE MergedLoop(
                          [m EXCEPT ![pi].rom_digests =
                                       MergeRoms(cur.rom_digests, @, 1)],
                          k + 1, Append(delete_list, cur.name))
              ELSE MergedLoop(m, k + 1, delete_list)

create_merged_checklist(m) ==
    LET r == MergedLoop(m, 1, <<>>) IN
    [map |-> SelectSeq(r.map, LAMBDA g : g.name \notin Range(r.delete_list)),
     raised |-> FALSE]

\* ------------------------------------------------------------ split

RECURSIVE StripRoms(_, _, _, _)
\* The inner loop of create_split_checklist over the parent's
\* rom_digests.items(): par is the parent's dict as the loop starts, cur the
\* clone's dict.  When the parent is the clone itself (alias) the deletion
\* changes the dict under iteration, and the iterator's next step raises
\* RuntimeError; otherwise the parent's dict does not change in the loop.
StripRoms(cur, par, i, alias) ==
    IF alias /\ Len(cur) # Len(par) THEN [roms |-> cur, raised |-> TRUE]
    ELSE IF i > Len(par) THEN [roms |-> cur, raised |-> FALSE]
    ELSE StripRoms(IF DictHas(cur, par[i][1]) THEN DictDel(cur, par[i][1])
                                               ELSE cur,
                   par, i + 1, alias)

RECURSIVE SplitLoop(_, _)
\* The outer loop of create_split_checklist over rom_map.items(); the
\* parent's dict is read as it is when the clone is visited.
SplitLoop(m, k) ==
    IF k > Len(m) THEN [map |-> m, raised |-> FALSE]
    ELSE LET cur == m[k] IN
         IF cur.romof = NoAttr THEN SplitLoop(m, k + 1)
         ELSE IF MapHas(m, cur.romof)
              THEN LET pi == MapIdx(m, cur.romof)
                       r  == StripRoms(cur.rom_digests, m[pi].rom_digests,
                                       1, pi = k)
                       m2 == [m EXCEPT ![k].rom_digests = r.roms]
                   IN IF r.raised THEN [map |-> m2, raised |-> TRUE]
                      ELSE SplitLoop(m2, k + 1)
              ELSE SplitLoop(m, k + 1)

create_split_checklist(m) == SplitLoop(m, 1)

\* ------------------------------------------------------------ dispatch

create_romfile_checklist(m, st) ==
    IF st = "merged" THEN create_merged_checklist(m)
    ELSE IF st = "split" THEN create_split_checklist(m)
    ELSE [map |-> m, raised |-> FALSE]

\* ------------------------------------------------------------ check_roms

\* os.path.join(rom_dir, zip_name) + ".zip" is not in the glob of rom_dir.
Absent == [present |-> FALSE, readable |-> FALSE, members |-> <<>>]

\* zip_file in zip_list
InZipList(dir, zip_name) == dir[zip_name].present

\* get_zip_member_digests: the sha1 of every member of the zip file; a file
\* zipfile cannot open or read raises (BadZipFile, OSError).
get_zip_member_digests(zip_file) ==
    IF zip_file.readable THEN [digests |-> zip_file.members, raised |-> FALSE]
    ELSE [digests |-> <<>>, raised |-> TRUE]

\* dict.setdefault(k, list()).append(v)
SetDefaultAppend(d, k, v) ==
    IF DictHas(d, k)
    THEN [i \in DOMAIN d |-> IF d[i][1] = k THEN <<k, Append(d[i][2], v)>>
                                            ELSE d[i]]
    ELSE Append(d, <<k, <<v>>>>)

EmptyStats ==
    [missing_files |-> <<>>, bad_files |-> {}, missing_roms |-> <<>>,
     bad_roms |-> <<>>]

\* CheckRom with the zip file not marked bad for a rom of the wrong digest.
CheckRomBadUnmarked(st, zip_name, rom_name, digest, zip_digests) ==
    IF ~DictHas(zip_digests, rom_name)
    THEN [st EXCEPT !.missing_roms = SetDefaultAppend(@, zip_name, rom_name),
                    !.bad_files = @ \cup {zip_name}]
    ELSE IF digest # DictGet(zip_digests, rom_name)
    THEN [st EXCEPT !.bad_roms =
                       SetDefaultAppend(@, zip_name,
                           <<rom_name, DictGet(zip_digests, rom_name), digest>>)]
    ELSE st

\* The body of the loop over map_digests.items(): one expected rom.
CheckRom(st, zip_name, rom_name, digest, zip_digests) ==
    IF ~DictHas(zip_digests, rom_name)
    THEN [st EXCEPT !.missing_roms = SetDefaultAppend(@, zip_name, rom_name),
                    !.bad_files = @ \cup {zip_name}]
    ELSE IF digest # DictGet(zip_digests, rom_name)
    THEN [st EXCEPT !.bad_roms =
                       SetDefaultAppend(@, zip_name,
                           <<rom_name, DictGet(zip_digests, rom_name), digest>>),
                    !.bad_files = @ \cup {zip_name}]
    ELSE st

RECURSIVE CheckZip(_, _, _, _, _)
\* The loop over map_digests.items() for one zip file.
CheckZip(st, zip_name, map_digests, zip_digests, i) ==
    IF i > Len(map_digests) THEN st
    ELSE CheckZip(CheckRom(st, zip_name, map_digests[i][1], map_digests[i][2],
                           zip_digests),
                  zip_name, map_digests, zip_digests, i + 1)

RECURSIVE CheckLoop(_, _, _, _)
\* The loop of check_roms over the rom map; an exception of
\* get_zip_member_digests is not caught and leaves check_roms.
CheckLoop(m, dir, st, k) ==
    IF k > Len(m) THEN [stats |-> st, raised |-> FALSE]
    ELSE LET zip_name == m[k].name IN
         IF InZipList(dir, zip_name)
         THEN LET z == get_zip_member_digests(dir[zip_name]) IN
              IF z.raised THEN [stats |-> st, raised |-> TRUE]
              ELSE CheckLoop(m, dir,
                             CheckZip(st, zip_name, m[k].rom_digests,
                                      z.digests, 1),
                             k + 1)
         ELSE CheckLoop(m, dir,
                        [st EXCEPT !.missing_files = Append(@, zip_name)],
                        k + 1)

check_roms(m, dir) == CheckLoop(m, dir, EmptyStats, 1)

\* ------------------------------------------------------------ state

VARIABLES rom_map,      \* ROM_MAP, the dict the reconcilers edit in place
          set_type,     \* ARGS.set_type
          raw,          \* history: the rom map as create_romfile_map built it
          calls,        \* how many create_romfile_checklist calls were made
          raised,       \* whether the last call left by an exception
          after_first,  \* history: the rom map after the first call
          rom_dir,      \* ARGS.rom_dir: the zip file of each game, or Absent
          stats,        \* the statistics check_roms hands to display_stats
          checked       \* "no", "done", or "raised" when check_roms raised

vars == <<rom_map, set_type, raw, calls, raised, after_first, rom_dir, stats,
          checked>>

\* The dicts over the given names, listed in their order, each with any of
\* the given values.
DictsOver(names, values) ==
    LET RECURSIVE Build(_, _)
        Build(S, f) ==
            IF S = {} THEN <<>>
            ELSE LET j == CHOOSE x \in S : \A y \in S : x <= y
                 IN <<<<names[j], f[j]>>>> \o Build(S \ {j}, f)
    IN { Build(S, f) : S \in SUBSET DOMAIN names, f \in [DOMAIN names -> values] }

RomDicts == DictsOver(RomNames, Sha1s)

RomOfs == Range(GameNames) \cup {Dangling, NoAttr}

\* create_romfile_map: one romset per game element, keyed by its name.
create_romfile_map(names, ro, bi, rd) ==
    [i \in DOMAIN names |->
       [name |-> names[i], romof |-> ro[i], isbios |-> bi[i],
        rom_digests |-> rd[i]]]

\* The program before create_romfile_checklist, on any datfile.
InitOf(st) ==
    /\ \E ro \in [DOMAIN GameNames -> RomOfs],
          bi \in [DOMAIN GameNames -> BOOLEAN],
          rd \in [DOMAIN GameNames -> RomDicts] :
          /\ rom_map = create_romfile_map(GameNames, ro, bi, rd)
          /\ raw = create_romfile_map(GameNames, ro, bi, rd)
    /\ set_type = st
    /\ calls = 0
    /\ raised = FALSE
    /\ after_first = <<>>
    /\ rom_dir = <<>>
    /\ stats = EmptyStats
    /\ checked = "no"

ZipFiles ==
    {Absent} \cup {[present |-> TRUE, readable |-> FALSE, members |-> <<>>]}
             \cup {[present |-> TRUE, readable |-> TRUE, members |-> d] :
                      d \in DictsOver(ZipMemberNames, Sha1s)}

\* The program before check_roms: the rom map of a nonmerged set, which
\* create_romfile_checklist leaves as loaded, and any rom directory.
InitCheck ==
    /\ \E rd \in [DOMAIN CheckedGames -> DictsOver(RomNames, DatSha1s)] :
          /\ rom_map = create_romfile_map(CheckedGames,
                            [i \in DOMAIN CheckedGames |-> NoAttr],
                            [i \in DOMAIN CheckedGames |-> FALSE], rd)
          /\ raw = rom_map
          /\ after_first = rom_map
    /\ set_type = "nonmerged"
    /\ calls = 1
    /\ raised = FALSE
    /\ rom_dir \in [Range(CheckedGames) -> ZipFiles]
    /\ stats = EmptyStats
    /\ checked = "no"

\* One call of create_romfile_checklist(ROM_MAP, ARGS.set_type).
Reconcile ==
    /\ calls < MaxCalls
    /\ checked = "no"
    /\ LET r == create_romfile_checklist(rom_map, set_type) IN
       /\ rom_map' = r.map
       /\ raised' = r.raised
       /\ after_first' = IF calls = 0 THEN r.map ELSE after_first
    /\ calls' = calls + 1
    /\ UNCHANGED <<set_type, raw, rom_dir, stats, checked>>

\* check_roms(ROM_MAP, ARGS.rom_dir), then display_stats unless it raised.
CheckRoms ==
    /\ checked = "no"
    /\ calls >= 1
    /\ ~raised
    /\ LET r == check_roms(rom_map, rom_dir) IN
       /\ stats' = IF r.raised THEN stats ELSE r.stats
       /\ checked' = IF r.raised THEN "raised" ELSE "done"
    /\ UNCHANGED <<rom_map, set_type, raw, calls, raised, after_first, rom_dir>>

Next == Reconcile
NextCheck == CheckRoms

SpecMerged == InitOf("merged") /\ [][Next]_vars
SpecSplit == InitOf("split") /\ [][Next]_vars
SpecCheck == InitCheck /\ [][NextCheck]_vars

\* ------------------------------------------------------------ claims

\* A game of the loaded datfile whose romof names a game of the datfile.
Resolvable(game) == game.romof # NoAttr /\ MapHas(raw, game.romof)
RawParent(game) == MapGet(raw, game.romof)
\* The rom_digests the game has now; only asked of games still in the map.
NowDigests(name) == MapGet(rom_map, name).rom_digests
RECURSIVE ReachesRoot(_, _)
\* Following romof from the game ends, within n steps, at a game without a
\* resolvable romof: the game is on no romof cycle.
ReachesRoot(game, n) ==
    \/ ~Resolvable(game)
    \/ n > 0 /\ ReachesRoot(RawParent(game), n - 1)
\* Case normalisation of a digest.
Lower(d) == IF d = "D1" THEN "d1" ELSE d

\* C1 (as amended): under "merged", every game C whose romof names a game P
\* of the datfile that does not carry isbios is absent from the rom map after
\* create_merged_checklist, and wherever P is itself still in the map, P's
\* rom_digests hold every rom name C listed, the roms P listed keeping P's
\* digest.
C1_CloneMergedIntoParent ==
    calls >= 1 =>
      \A i \in DOMAIN raw :
        (Resolvable(raw[i]) /\ ~RawParent(raw[i]).isbios) =>
          /\ ~MapHas(rom_map, raw[i].name)
          /\ MapHas(rom_map, raw[i].romof) =>
               LET P0 == RawParent(raw[i]).rom_digests
                   P1 == NowDigests(raw[i].romof)
               IN /\ DictKeys(raw[i].rom_digests) \subseteq DictKeys(P1)
                  /\ \A k \in DictKeys(P0) :
                       DictHas(P1, k) /\ DictGet(P1, k) = DictGet(P0, k)

\* C1, witness: after create_merged_checklist a parent without isbios is
\* still in the map, and one of its clones listed a rom the parent lacked
\* and a rom the parent listed with another digest.
C1_Witness ==
    /\ calls = 1
    /\ \E i \in DOMAIN raw :
         /\ Resolvable(raw[i])
         /\ raw[i].romof # raw[i].name
         /\ ~RawParent(raw[i]).isbios
         /\ MapHas(rom_map, raw[i].romof)
         /\ \E k \in DictKeys(raw[i].rom_digests) :
              ~DictHas(RawParent(raw[i]).rom_digests, k)
         /\ \E k \in DictKeys(raw[i].rom_digests) :
              /\ DictHas(RawParent(raw[i]).rom_digests, k)
              /\ DictGet(RawParent(raw[i]).rom_digests, k)
                   # DictGet(raw[i].rom_digests, k)

\* C1 (as claimed): under "merged", every game C whose romof names another
\* game P of the datfile, P carrying isbios or not, is absent from the rom map after
\* create_merged_checklist, P's rom_digests holding every rom name C listed
\* and the roms P listed keeping P's digest.
C1_Original ==
    calls >= 1 =>
      \A i \in DOMAIN raw :
        (Resolvable(raw[i]) /\ raw[i].romof # raw[i].name) =>
          /\ ~MapHas(rom_map, raw[i].name)
          /\ MapHas(rom_map, raw[i].romof) =>
               LET P0 == RawParent(raw[i]).rom_digests
                   P1 == NowDigests(raw[i].romof)
               IN /\ DictKeys(raw[i].rom_digests) \subseteq DictKeys(P1)
                  /\ \A k \in DictKeys(P0) :
                       DictHas(P1, k) /\ DictGet(P1, k) = DictGet(P0, k)

\* C2 (as claimed), on datfiles without romof cycles: under "split", after
\* create_split_checklist no game C whose romof names a game P of the
\* datfile still lists a rom that P listed in the loaded datfile with an
\* equal digest.
C2_Claim ==
    (calls = 1 /\ \A i \in DOMAIN raw : ReachesRoot(raw[i], Len(raw))) =>
      \A i \in DOMAIN raw :
        Resolvable(raw[i]) =>
          LET Cn == NowDigests(raw[i].name)
              P0 == RawParent(raw[i]).rom_digests
          IN \A k \in DictKeys(Cn) :
               ~(DictHas(P0, k) /\ DictGet(P0, k) = DictGet(Cn, k))

\* C3: when check_roms has gone through the rom map, a game is in
\* missing_files iff its zip file is not in the rom directory, and then it is
\* in no other field; it is in bad_files iff its zip file is there and lacks
\* a listed rom or holds one with another digest; missing_roms and bad_roms
\* have an entry for exactly the games with such roms, so bad_files is the
\* union of their keys; a zip member no game lists changes nothing.
C3_Classification ==
    checked = "done" =>
      /\ \A X \in MapNames(rom_map) :
           LET exp  == NowDigests(X)
               zip  == rom_dir[X]
               miss == { k \in DictKeys(exp) : ~DictHas(zip.members, k) }
               bad  == { k \in DictKeys(exp) :
                           /\ DictHas(zip.members, k)
                           /\ DictGet(zip.members, k) # DictGet(exp, k) }
           IN /\ (X \in Range(stats.missing_files)) <=> ~zip.present
              /\ ~zip.present =>
                   /\ X \notin stats.bad_files
                   /\ ~DictHas(stats.missing_roms, X)
                   /\ ~DictHas(stats.bad_roms, X)
              /\ (X \in stats.bad_files) <=>
                   (zip.present /\ (miss # {} \/ bad # {}))
              /\ DictHas(stats.missing_roms, X) <=> (zip.present /\ miss # {})
              /\ DictHas(stats.missing_roms, X) =>
                   Range(DictGet(stats.missing_roms, X)) = miss
              /\ DictHas(stats.bad_roms, X) <=> (zip.present /\ bad # {})
              /\ DictHas(stats.bad_roms, X) =>
                   { t[1] : t \in Range(DictGet(stats.bad_roms, X)) } = bad
      /\ stats.bad_files =
           DictKeys(stats.missing_roms) \cup DictKeys(stats.bad_roms)

\* C3, witness: check_roms has finished on a rom directory that lacks one
\* game's zip file and holds, for another game, a zip file with a member no
\* game lists and a listed rom of another digest.
C3_Witness ==
    /\ checked = "done"
    /\ \E X \in MapNames(rom_map) : ~rom_dir[X].present
    /\ \E Y \in MapNames(rom_map) :
         /\ rom_dir[Y].present
         /\ DictHas(rom_dir[Y].members, "x")
         /\ Y \in stats.bad_files
         /\ DictHas(stats.bad_roms, Y)

\* C4 (as claimed): every entry check_roms appends to bad_roms is the rom
\* name, then the digest the datfile expects, then the digest computed from
\* the zip file.
C4_Claim ==
    checked = "done" =>
      \A X \in DictKeys(stats.bad_roms) :
        \A t \in Range(DictGet(stats.bad_roms, X)) :
          /\ t[2] = DictGet(NowDigests(X), t[1])
          /\ t[3] = DictGet(rom_dir[X].members, t[1])

\* C5 (as claimed): check_roms does not raise; a game whose zip file cannot
\* be opened or read is recorded in missing_files and in no other field, and
\* the statistics of all games are produced.
C5_Claim ==
    checked # "no" =>
      /\ checked = "done"
      /\ \A X \in MapNames(rom_map) :
           (rom_dir[X].present /\ ~rom_dir[X].readable) =>
             /\ X \in Range(stats.missing_files)
             /\ X \notin stats.bad_files

\* C6 (as claimed): a listed rom whose digest in the zip file equals the
\* datfile's digest up to case gets no bad_roms entry.
C6_Claim ==
    checked = "done" =>
      \A X \in MapNames(rom_map) :
        \A k \in DictKeys(NowDigests(X)) :
          (/\ rom_dir[X].present
           /\ DictHas(rom_dir[X].members, k)
           /\ Lower(DictGet(rom_dir[X].members, k))
                = Lower(DictGet(NowDigests(X), k)))
          => (DictHas(stats.bad_roms, X) =>
                \A t \in Range(DictGet(stats.bad_roms, X)) : t[1] # k)

\* C7 (as amended): under "merged" isbios gates merging into the romset that
\* carries it.  A game whose romof names a game carrying isbios stays in the
\* rom map, and that parent, where it is still in the map, has the
\* rom_digests it was loaded with; a game that itself carries isbios and
\* whose romof names a game without isbios is merged like any clone: it is
\* absent from the map, and its parent, where still in the map, lists its
\* rom names.
C7_BiosGatesIncoming ==
    calls >= 1 =>
      \A i \in DOMAIN raw :
        Resolvable(raw[i]) =>
          /\ RawParent(raw[i]).isbios =>
               /\ MapHas(rom_map, raw[i].name)
               /\ MapHas(rom_map, raw[i].romof) =>
                    NowDigests(raw[i].romof) = RawParent(raw[i]).rom_digests
          /\ (raw[i].isbios /\ ~RawParent(raw[i]).isbios) =>
               /\ ~MapHas(rom_map, raw[i].name)
               /\ MapHas(rom_map, raw[i].romof) =>
                    DictKeys(raw[i].rom_digests)
                      \subseteq DictKeys(NowDigests(raw[i].romof))

\* C7, witness: after create_merged_checklist, a game listing a rom its
\* isbios parent lacks is still in the map beside that parent, and a game
\* carrying isbios has been merged into a parent without isbios.
C7_Witness ==
    /\ calls = 1
    /\ \E i \in DOMAIN raw :
         /\ Resolvable(raw[i])
         /\ raw[i].romof # raw[i].name
         /\ RawParent(raw[i]).isbios
         /\ MapHas(rom_map, raw[i].romof)
         /\ \E k \in DictKeys(raw[i].rom_digests) :
              ~DictHas(RawParent(raw[i]).rom_digests, k)
    /\ \E i \in DOMAIN raw :
         /\ Resolvable(raw[i])
         /\ raw[i].isbios
         /\ ~RawParent(raw[i]).isbios
         /\ raw[i].rom_digests # <<>>
         /\ MapHas(rom_map, raw[i].romof)

\* C7 (as claimed): under "merged" a game whose romof names a game carrying
\* isbios is merged and absent from the rom map, and a game that itself
\* carries isbios and has a resolvable romof stays in the map, unmerged.
C7_Original ==
    calls >= 1 =>
      \A i \in DOMAIN raw :
        Resolvable(raw[i]) =>
          /\ (RawParent(raw[i]).isbios /\ ~raw[i].isbios) =>
               ~MapHas(rom_map, raw[i].name)
          /\ raw[i].isbios => MapHas(rom_map, raw[i].name)

\* C8 (as claimed): create_romfile_checklist never raises, and a game whose
\* romof names no game of the datfile stays in the rom map with the
\* rom_digests it was loaded with.
C8_Claim ==
    /\ ~raised
    /\ calls >= 1 =>
         \A i \in DOMAIN raw :
           (raw[i].romof # NoAttr /\ ~MapHas(raw, raw[i].romof)) =>
             /\ MapHas(rom_map, raw[i].name)
             /\ NowDigests(raw[i].name) = raw[i].rom_digests

\* C9 (as claimed): the rom map after a second create_romfile_checklist call
\* with the same set_type equals the rom map after the first.
C9_Claim == calls = 2 => rom_map = after_first

\* C10 (as claimed), on datfiles without romof cycles: under "merged" every
\* rom name some game listed in the loaded datfile is, after
\* create_merged_checklist, listed by a game still in the rom map.
C10_Claim ==
    (calls = 1 /\ \A i \in DOMAIN raw : ReachesRoot(raw[i], Len(raw))) =>
      \A i \in DOMAIN raw :
        \A k \in DictKeys(raw[i].rom_digests) :
          \E j \in DOMAIN rom_map : DictHas(rom_map[j].rom_digests, k)
====
